---- MODULE Spec2Model ----
(***************************************************************************)
(* Heap-dump tools of novos: tools/parse_heap_raw.py (raw 32-byte record   *)
(* array), tools/process_raw_serial_dump.py (framed serial dump) and       *)
(* tools/sort_block_output.py (adjacency report over CSV block rows).      *)
(*                                                                         *)
(* Python integers are unbounded, the decoded fields are up to 64 bits     *)
(* wide; a decoded integer is kept here as four 16-bit limbs, least        *)
(* significant first, so that the byte -> integer conversion is computed   *)
(* and no value exceeds 32 bits.                                           *)
(***************************************************************************)
EXTENDS Integers, Sequences, FiniteSets, TLC

VARIABLES
    \* parse_heap_raw.py, one HeapRepr under construction
    hbytes,          \* self.bytes
    hpc,             \* "init" | "parse" | "done" | "failed" (AssertionError)
    hi,              \* loop variable i of parse()
    hblocks,         \* self.blocks
    hasBlocks,       \* whether the attribute self.blocks exists yet
    \* process_raw_serial_dump.py, module-level script
    data,            \* bytes of COM2.out
    index,           \* global byte cursor
    spc,             \* position in the script
    command,
    filename_length,
    filename,
    file_size,
    blocks,
    errlog,          \* calls of err(), in order
    \* sort_block_output.py, module-level script
    block_data,      \* `data` after line 29 (list of Block)
    sorted_data,
    si,              \* loop variable i of the report loop
    reports,         \* the lines printed by the report loop, in order
    apc              \* position in the script

heapVars   == <<hbytes, hpc, hi, hblocks, hasBlocks>>
serialVars == <<data, index, spc, command, filename_length, filename,
                file_size, blocks, errlog>>
sortVars   == <<block_data, sorted_data, si, reports, apc>>
vars       == <<heapVars, serialVars, sortVars>>

-----------------------------------------------------------------------------
(* Integers and bytes *)

ByteBase == 256
LimbBase == ByteBase * ByteBase
\* A module-level name that is not bound yet.
NoValue  == -1

Min(a, b) == IF a < b THEN a ELSE b

\* s[m..n) as a Python slice: clipped to the sequence, empty when m >= n.
Slice(s, m, n) ==
    LET hi_ == Min(n, Len(s))
    IN  IF m >= hi_ THEN <<>> ELSE SubSeq(s, m + 1, hi_)

ByteOr0(bs, k) == IF k <= Len(bs) THEN bs[k] ELSE 0

\* int.from_bytes(bs, "little") for at most 8 bytes, as four 16-bit limbs.
IntFromBytes(bs) ==
    [k \in 1..4 |-> ByteOr0(bs, 2 * k - 1) + ByteBase * ByteOr0(bs, 2 * k)]

\* A small natural (a length, below 2^16) as limbs.
IntOf(n) == <<n, 0, 0, 0>>

\* a >= b on limbs: compare from the most significant limb down.
RECURSIVE GEFrom(_, _, _)
GEFrom(a, b, k) ==
    IF k = 0 THEN TRUE
    ELSE IF a[k] > b[k] THEN TRUE
    ELSE IF a[k] < b[k] THEN FALSE
    ELSE GEFrom(a, b, k - 1)

GE(a, b) == GEFrom(a, b, 4)

\* x & y on two 16-bit limbs, bit by bit.
RECURSIVE LimbAnd(_, _, _)
LimbAnd(x, y, bits) ==
    IF bits = 0 THEN 0
    ELSE ((x % 2) * (y % 2)) + 2 * LimbAnd(x \div 2, y \div 2, bits - 1)

BitAnd(a, b) == [k \in 1..4 |-> LimbAnd(a[k], b[k], 16)]

\* v << 16 for a value below 2^48.
ShiftLeft16(v) == <<0, v[1], v[2], v[3]>>

-----------------------------------------------------------------------------
(* tools/parse_heap_raw.py *)

ChunkLen == 32

\* Bounds of the inputs drawn.
MaxChunks == 2

\* (size bytes, address bytes) of the chunks drawn; the second size has its top
\* bit set, the first address is TEST_ALLOCATOR_SIGN's bytes.
HeapFields ==
    { << <<16, 0, 0, 0, 0, 0, 0, 0>>, <<0, 0, 84, 69, 83, 84, 0, 0>> >>,
      << <<0, 1, 0, 0, 0, 0, 0, 128>>, <<255, 1, 0, 0, 0, 0, 52, 18>> >> }
FreeBytes     == {0, 1, 2}
ReuseBytes    == {0, 255}
Reserved      == [k \in 1..14 |-> k]

HeapChunks ==
    { sa[1] \o <<f>> \o sa[2] \o <<r>> \o Reserved :
        sa \in HeapFields, f \in FreeBytes, r \in ReuseBytes }

RECURSIVE Flatten(_)
Flatten(ss) == IF ss = <<>> THEN <<>> ELSE Head(ss) \o Flatten(Tail(ss))

\* A file of whole chunks followed by a tail of n bytes.
HeapFile(cs, n) == Flatten(cs) \o Slice(Reserved \o Reserved \o Reserved, 0, n)

\* Block(size, is_free, addr, is_reuseable)
Block(size, is_free, addr, is_reuseable) ==
    [size |-> size, is_free |-> is_free, addr |-> addr, is_reuseable |-> is_reuseable]

\* ParseChunk reading the address one byte early (buf[8:16]).
ParseChunkAddrEarly(buf) ==
    Block(IntFromBytes(Slice(buf, 0, 8)),
          buf[9] # 0,
          IntFromBytes(Slice(buf, 8, 16)),
          buf[18] # 0)

\* lines 17-22: one chunk to one Block; bool(b) is b != 0.
ParseChunk(buf) ==
    Block(IntFromBytes(Slice(buf, 0, 8)),
          buf[9] # 0,
          IntFromBytes(Slice(buf, 9, 17)),
          buf[18] # 0)

\* LengthAsserted checking against half a chunk.
LengthAssertedHalf(bs) == Len(bs) % (ChunkLen \div 2) = 0

\* line 12: assert len(self.bytes) % 0x20 == 0
LengthAsserted(bs) == Len(bs) % ChunkLen = 0

HeapInit ==
    /\ \E m \in 0..MaxChunks, n \in 0..(ChunkLen - 1) :
          \E cs \in [1..m -> HeapChunks] : hbytes = HeapFile(cs, n)
    /\ hpc = "init"
    /\ hi = 0
    /\ hblocks = <<>>
    /\ hasBlocks = FALSE

\* lines 11-15: the file is read, the assertion runs, parse() starts.
HConstruct ==
    /\ hpc = "init"
    /\ IF LengthAsserted(hbytes)
       THEN /\ hpc' = "parse"
            /\ hasBlocks' = TRUE
            /\ hblocks' = <<>>
            /\ hi' = 0
       ELSE /\ hpc' = "failed"
            /\ UNCHANGED <<hasBlocks, hblocks, hi>>
    /\ UNCHANGED <<hbytes, serialVars, sortVars>>

\* lines 16-22: one iteration of for i in range(0, len(self.bytes), 0x20).
HParseChunk ==
    /\ hpc = "parse"
    /\ hi < Len(hbytes)
    /\ hblocks' = Append(hblocks, ParseChunk(Slice(hbytes, hi, hi + ChunkLen)))
    /\ hi' = hi + ChunkLen
    /\ UNCHANGED <<hbytes, hpc, hasBlocks, serialVars, sortVars>>

\* the range is exhausted: parse() and __init__ return.
HParseDone ==
    /\ hpc = "parse"
    /\ hi >= Len(hbytes)
    /\ hpc' = "done"
    /\ UNCHANGED <<hbytes, hi, hblocks, hasBlocks, serialVars, sortVars>>

HeapNext == HConstruct \/ HParseChunk \/ HParseDone

-----------------------------------------------------------------------------
(* tools/process_raw_serial_dump.py *)

\* line 6: int.from_bytes(b"TEST", "little") << 16
TEST_ALLOCATOR_SIGN == ShiftLeft16(IntFromBytes(<<84, 69, 83, 84>>))

\* line 57: the mask 0xFFFF000000000000
AddressMask == <<0, 0, 0, LimbBase - 1>>

\* line 63: the 32 of `while index+32 < len(data)`
LoopBytes == 32

\* Bounds of the inputs drawn.
MaxRecords == 2
MaxPad == 15

CommandSet  == {1, 2}
FilenameSet == { <<>>, <<97, 98, 99>>, <<255>> }

\* 18-byte records: three addresses (the signature constant itself, "TEST" in
\* the top four bytes, an unrelated one) with two settings of the other fields.
SerialAddrBytes ==
    { <<0, 0, 84, 69, 83, 84, 0, 0>>,
      <<0, 0, 0, 0, 84, 69, 83, 84>>,
      <<255, 1, 0, 0, 0, 0, 52, 18>> }
SerialOther == { <<<<16, 0, 0, 0, 0, 0, 0, 0>>, 1, 0>>,
                 <<<<0, 1, 0, 0, 0, 0, 0, 128>>, 2, 1>> }
SerialRecords ==
    { o[1] \o <<o[2]>> \o a \o <<o[3]>> : o \in SerialOther, a \in SerialAddrBytes }

PadBytes(n) == [k \in 1..n |-> k]

\* A number below 2^16 as 4 little-endian bytes.
U32Bytes(n) == <<n % ByteBase, n \div ByteBase, 0, 0>>

\* The announced sizes drawn for a stream of `total` bytes with `rest` bytes
\* after the header.
FileSizeBytes(total, rest) ==
    { U32Bytes(0), U32Bytes(rest), U32Bytes(total - 1), U32Bytes(total),
      <<0, 0, 1, 0>> }

\* A stream: command, filename length, filename, announced size z, body.
SerialStream(c, f, z, b) == <<c, Len(f)>> \o f \o z \o b

\* Streams cut short inside the header.
TruncatedStreams ==
    { Slice(<<1, 3, 97, 98, 99, 45, 0, 0, 0>>, 0, n) : n \in 0..8 }

\* lines 8-12: data[index:index+size]
ReadBytes(size) == Slice(data, index, index + size)

\* bytes(filename).decode('utf-8') succeeds; exact for streams whose bytes
\* above 0x7F are 0xFF, which no UTF-8 text holds.
Utf8Decodes(bs) == \A k \in 1..Len(bs) : bs[k] < 128

\* line 57: address & 0xFFFF000000000000 == TEST_ALLOCATOR_SIGN
SignatureMatches(address) == BitAnd(address, AddressMask) = TEST_ALLOCATOR_SIGN

\* FileSizeTooLarge comparing against the bytes left after the header.
FileSizeTooLargeForRest(size, cursor) ==
    GE(size, IntOf(IF Len(data) > cursor THEN Len(data) - cursor ELSE 0))

\* line 40: file_size >= len(data); the cursor (index after the read of line
\* 36) plays no part.
FileSizeTooLarge(size, cursor) == GE(size, IntOf(Len(data)))

\* CommandAccepted taking every command below 3.
CommandAcceptedBelow3(c) == c < 3

\* line 24: command != 0x01 is the exit
CommandAccepted(c) == c = 1

\* line 63: index+32 < len(data)
MoreBlocks == index + LoopBytes < Len(data)

\* Block(address, size, is_reuseable, is_free), lines 43-48
SBlock(address, size, is_reuseable, is_free) ==
    [size |-> size, is_free |-> is_free, address |-> address,
     is_reuseable |-> is_reuseable]

SerialInit ==
    /\ \/ \E c \in CommandSet, f \in FilenameSet, m \in 0..MaxRecords, n \in 0..MaxPad :
             \E rs \in [1..m -> SerialRecords] :
                LET b == Flatten(rs) \o PadBytes(n)
                IN  \E z \in FileSizeBytes(6 + Len(f) + Len(b), Len(b)) :
                        data = SerialStream(c, f, z, b)
       \/ data \in TruncatedStreams
    /\ index = 0
    /\ spc = "command"
    /\ command = NoValue
    /\ filename_length = NoValue
    /\ filename = <<>>
    /\ file_size = IntOf(0)
    /\ blocks = <<>>
    /\ errlog = <<>>

\* line 20: command = read_byte(); read_bytes(1)[0] raises IndexError on an
\* empty slice, after index has moved.
SReadCommand ==
    /\ spc = "command"
    /\ index' = index + 1
    /\ IF ReadBytes(1) = <<>>
       THEN /\ spc' = "crashed"
            /\ UNCHANGED command
       ELSE /\ command' = ReadBytes(1)[1]
            /\ spc' = "check"
    /\ UNCHANGED <<data, filename_length, filename, file_size, blocks, errlog>>
    /\ UNCHANGED <<heapVars, sortVars>>

\* lines 24-26
SCheckCommand ==
    /\ spc = "check"
    /\ spc' = IF CommandAccepted(command) THEN "length" ELSE "exit"
    /\ UNCHANGED <<data, index, command, filename_length, filename, file_size,
                   blocks, errlog>>
    /\ UNCHANGED <<heapVars, sortVars>>

\* line 28
SReadFilenameLength ==
    /\ spc = "length"
    /\ index' = index + 1
    /\ IF ReadBytes(1) = <<>>
       THEN /\ spc' = "crashed"
            /\ UNCHANGED filename_length
       ELSE /\ filename_length' = ReadBytes(1)[1]
            /\ spc' = "filename"
    /\ UNCHANGED <<data, command, filename, file_size, blocks, errlog>>
    /\ UNCHANGED <<heapVars, sortVars>>

\* lines 32-34: the print decodes the name and raises UnicodeDecodeError.
SReadFilename ==
    /\ spc = "filename"
    /\ filename' = ReadBytes(filename_length)
    /\ index' = index + filename_length
    /\ spc' = IF Utf8Decodes(filename') THEN "size" ELSE "crashed"
    /\ UNCHANGED <<data, command, filename_length, file_size, blocks, errlog>>
    /\ UNCHANGED <<heapVars, sortVars>>

\* lines 36-41
SReadFileSize ==
    /\ spc = "size"
    /\ file_size' = IntFromBytes(ReadBytes(4))
    /\ index' = index + 4
    /\ errlog' = IF FileSizeTooLarge(file_size', index')
                 THEN Append(errlog, [kind |-> "size", at |-> 0])
                 ELSE errlog
    /\ spc' = "blocks"
    /\ UNCHANGED <<data, command, filename_length, filename, blocks>>
    /\ UNCHANGED <<heapVars, sortVars>>

\* lines 63-64 with read_block (52-59): the loop test holds, so the 18 bytes
\* are there. `at` is the ordinal of the record the err() call is about.
SReadBlock ==
    /\ spc = "blocks"
    /\ MoreBlocks
    /\ LET size         == IntFromBytes(Slice(data, index, index + 8))
           is_free      == data[index + 9] = 1
           address      == IntFromBytes(Slice(data, index + 9, index + 17))
           is_reuseable == data[index + 18] = 1
       IN  /\ errlog' = IF ~SignatureMatches(address)
                        THEN Append(errlog, [kind |-> "address", at |-> Len(blocks) + 1])
                        ELSE errlog
           /\ blocks' = Append(blocks, SBlock(address, size, is_reuseable, is_free))
    /\ index' = index + 18
    /\ UNCHANGED <<data, spc, command, filename_length, filename, file_size>>
    /\ UNCHANGED <<heapVars, sortVars>>

\* lines 63, 66-70: the loop test fails, the blocks are printed.
SFinish ==
    /\ spc = "blocks"
    /\ ~MoreBlocks
    /\ spc' = "done"
    /\ UNCHANGED <<data, index, command, filename_length, filename, file_size,
                   blocks, errlog>>
    /\ UNCHANGED <<heapVars, sortVars>>

SerialNext ==
    \/ SReadCommand \/ SCheckCommand \/ SReadFilenameLength \/ SReadFilename
    \/ SReadFileSize \/ SReadBlock \/ SFinish

-----------------------------------------------------------------------------
(* tools/sort_block_output.py *)

\* Bounds of the inputs drawn.
MaxBlocks == 3
MaxAddr == 4
MaxSize == 2

\* Block(id, block_num, size, is_allocated, is_free), lines 13-19. The two
\* flags are read by __repr__ alone and are left out.
ABlock(id, address, size) == [id |-> id, address |-> address, size |-> size]

\* lines 11 and 29: row k of the CSV (0-based, header row removed) becomes the
\* Block with id k.
BlockList(f) == [k \in 1..Len(f) |-> ABlock(k - 1, f[k][1], f[k][2])]

\* IsNextTo with >= in place of the first ==.
IsNextToOrPast(self, other) ==
    LET self_end == self.address + self.size
    IN  self_end >= other.address \/ self.address = other.address + other.size

\* lines 21-23: Block.is_next_to
IsNextTo(self, other) ==
    LET self_end == self.address + self.size
    IN  self_end = other.address \/ self.address = other.address + other.size

\* line 32: list.sort(key=address) is stable; insertion after the elements
\* whose address is not greater keeps the input order of equal addresses.
RECURSIVE InsertByAddress(_, _)
InsertByAddress(s, x) ==
    IF s = <<>> THEN <<x>>
    ELSE IF Head(s).address <= x.address
         THEN <<Head(s)>> \o InsertByAddress(Tail(s), x)
         ELSE <<x>> \o s

RECURSIVE SortByAddress(_)
SortByAddress(s) ==
    IF s = <<>> THEN <<>>
    ELSE InsertByAddress(SortByAddress(SubSeq(s, 1, Len(s) - 1)), s[Len(s)])

AdjacentTo(block, other) == [block |-> block.id, kind |-> "AdjacentTo", other |-> other.id]
Isolated(block)          == [block |-> block.id, kind |-> "Isolated", other |-> NoValue]

\* ReportFor trying the successor before the predecessor.
ReportForNextFirst(sd, i) ==
    LET block == sd[i + 1]
    IN  IF i < Len(sd) - 1 /\ IsNextTo(block, sd[i + 2])
        THEN AdjacentTo(block, sd[i + 2])
        ELSE IF i > 0 /\ IsNextTo(sd[i], block)
        THEN AdjacentTo(block, sd[i])
        ELSE Isolated(block)

\* lines 39-49: the line printed for sorted_data[i] (i counts from 0; a Block
\* is always truthy, so `last_block and ...` tests presence alone).
ReportFor(sd, i) ==
    LET block == sd[i + 1]
    IN  IF i > 0 /\ IsNextTo(sd[i], block)
        THEN AdjacentTo(block, sd[i])
        ELSE IF i < Len(sd) - 1 /\ IsNextTo(block, sd[i + 2])
        THEN AdjacentTo(block, sd[i + 2])
        ELSE Isolated(block)

SortInit ==
    /\ \E n \in 0..MaxBlocks :
          \E f \in [1..n -> (0..MaxAddr) \X (0..MaxSize)] : block_data = BlockList(f)
    /\ sorted_data = <<>>
    /\ si = 0
    /\ reports = <<>>
    /\ apc = "sort"

\* lines 31-36
ASort ==
    /\ apc = "sort"
    /\ sorted_data' = SortByAddress(block_data)
    /\ si' = 0
    /\ apc' = "report"
    /\ UNCHANGED <<block_data, reports>>
    /\ UNCHANGED <<heapVars, serialVars>>

\* lines 38-49: one iteration of the report loop
AReport ==
    /\ apc = "report"
    /\ si < Len(sorted_data)
    /\ reports' = Append(reports, ReportFor(sorted_data, si))
    /\ si' = si + 1
    /\ UNCHANGED <<block_data, sorted_data, apc>>
    /\ UNCHANGED <<heapVars, serialVars>>

\* the range is exhausted
AFinish ==
    /\ apc = "report"
    /\ si >= Len(sorted_data)
    /\ apc' = "done"
    /\ UNCHANGED <<block_data, sorted_data, si, reports>>
    /\ UNCHANGED <<heapVars, serialVars>>

SortNext == ASort \/ AReport \/ AFinish

-----------------------------------------------------------------------------
(* The three scripts run separately. *)

SerialIdle ==
    /\ data = <<>> /\ index = 0 /\ spc = "idle" /\ command = NoValue
    /\ filename_length = NoValue /\ filename = <<>> /\ file_size = IntOf(0)
    /\ blocks = <<>> /\ errlog = <<>>

SortIdle ==
    /\ block_data = <<>> /\ sorted_data = <<>> /\ si = 0 /\ reports = <<>>
    /\ apc = "idle"

HeapIdle ==
    /\ hbytes = <<>> /\ hpc = "idle" /\ hi = 0 /\ hblocks = <<>>
    /\ hasBlocks = FALSE

InitHeap == HeapInit /\ SerialIdle /\ SortIdle
SpecHeap == InitHeap /\ [][HeapNext]_vars

InitSerial == SerialInit /\ HeapIdle /\ SortIdle
SpecSerial == InitSerial /\ [][SerialNext]_vars

InitSort == SortInit /\ HeapIdle /\ SerialIdle
SpecSort == InitSort /\ [][SortNext]_vars

-----------------------------------------------------------------------------
(* Claims about tools/parse_heap_raw.py *)

\* Re-encoding of a decoded record: an integer as 8 little-endian bytes, a
\* flag as one 0/1 byte.
EncodeInt(v) ==
    [k \in 1..8 |-> IF k % 2 = 1 THEN v[(k + 1) \div 2] % ByteBase
                                 ELSE v[k \div 2] \div ByteBase]
EncodeBool(b) == IF b THEN 1 ELSE 0
EncodeRecord(b) ==
    EncodeInt(b.size) \o <<EncodeBool(b.is_free)>>
        \o EncodeInt(b.addr) \o <<EncodeBool(b.is_reuseable)>>

ChunkHead(k) == Slice(hbytes, ChunkLen * (k - 1), ChunkLen * (k - 1) + 18)

\* C1 as stated: after a decode of a buffer of n*32 bytes there are n records
\* and re-encoding record k gives back bytes [0,18) of chunk k, whatever the
\* flag bytes are.
C1_RoundTripAllBytes ==
    hpc = "done" =>
        /\ Len(hblocks) * ChunkLen = Len(hbytes)
        /\ \A k \in 1..Len(hblocks) : EncodeRecord(hblocks[k]) = ChunkHead(k)

\* C1 amended: n records in buffer order; re-encoding record k gives back the
\* size bytes [0,8) and the address bytes [9,17) of chunk k, and each flag byte
\* comes back as 0 when it was 0 and as 1 when it was anything else (so it is
\* reproduced exactly when it was 0 or 1).
FlagNormalised(b) == IF b = 0 THEN 0 ELSE 1
C1_RoundTripUpToFlags ==
    hpc = "done" =>
        /\ Len(hblocks) * ChunkLen = Len(hbytes)
        /\ \A k \in 1..Len(hblocks) :
              LET e == EncodeRecord(hblocks[k])
                  c == ChunkHead(k)
              IN  /\ Len(e) = 18
                  /\ \A j \in 1..18 :
                        e[j] = IF j \in {9, 18} THEN FlagNormalised(c[j]) ELSE c[j]

\* C1 witness: a finished decode of two chunks, one with a flag byte that is
\* neither 0 nor 1 and one whose flag bytes are both 0 or 1.
C1_Witness ==
    /\ hpc = "done"
    /\ Len(hblocks) = 2
    /\ ChunkHead(1)[9] = 2
    /\ ChunkHead(2)[9] = 1 /\ ChunkHead(2)[18] = 0

\* C7: a buffer whose length is not a multiple of 32 never gets past the
\* constructor's assertion: no chunk is decoded and self.blocks never exists.
C7_MisalignedFailsBeforeDecode ==
    (Len(hbytes) % 32 # 0) =>
        /\ hpc \in {"init", "failed"}
        /\ ~hasBlocks
        /\ hblocks = <<>>
        /\ hi = 0

\* C7 witness: the constructor has failed on a buffer holding a whole chunk
\* and a partial one.
C7_Witness ==
    /\ hpc = "failed"
    /\ Len(hbytes) > 32
    /\ Len(hbytes) % 32 # 0

-----------------------------------------------------------------------------
(* Claims about tools/process_raw_serial_dump.py *)

\* The stream of C2: command 1, length 3, "abc", four size bytes, 36 more bytes.
IsTwoRecordStream ==
    /\ Len(data) = 45
    /\ Slice(data, 0, 5) = <<1, 3, 97, 98, 99>>

\* C2 as stated: on the 45-byte stream the script neither exits nor raises,
\* and it ends with exactly two decoded records.
C2_TwoRecordsDecoded ==
    IsTwoRecordStream =>
        /\ spc \notin {"exit", "crashed"}
        /\ spc = "done" => Len(blocks) = 2

\* The top 16 bits of a decoded address, and of the expected signature.
Top16(v) == v[4]
ExpectedTag == Top16(TEST_ALLOCATOR_SIGN)
AddressWarnings(k) ==
    Cardinality({ j \in 1..Len(errlog) :
                    errlog[j].kind = "address" /\ errlog[j].at = k })

\* C3 as stated: a decoded record whose address carries the expected tag in
\* its top 16 bits has no address warning, any other record has exactly one.
C3_WarningIffTagMismatch ==
    \A k \in 1..Len(blocks) :
        AddressWarnings(k) = IF Top16(blocks[k].address) = ExpectedTag THEN 0 ELSE 1

\* C6: when the first byte is not 0x01 the cursor never passes 1, nothing after
\* the command byte is read, no record is produced, and the script can only
\* be before the check or have exited.
C6_BadCommandStopsAtOne ==
    (Len(data) >= 1 /\ data[1] # 1) =>
        /\ spc \in {"command", "check", "exit"}
        /\ index = IF spc = "command" THEN 0 ELSE 1
        /\ filename_length = NoValue
        /\ filename = <<>>
        /\ blocks = <<>>
        /\ errlog = <<>>

\* C6 witness: the script has exited on command byte 2 of a stream that holds
\* a header and records, with the cursor at 1.
C6_Witness ==
    /\ spc = "exit"
    /\ command = 2
    /\ index = 1
    /\ Len(data) >= 45

\* C9 as stated: when the script is done fewer than 32 bytes are unread.
C9_StopsBelow32Unread ==
    spc = "done" => Len(data) - index < 32

\* The announced size, read from the stream's bytes, is at least n (n < 2^16).
HeaderLen == 6 + filename_length
AnnouncedAtLeast(n) ==
    LET z == Slice(data, HeaderLen - 4, HeaderLen)
    IN  \/ ByteOr0(z, 3) # 0
        \/ ByteOr0(z, 4) # 0
        \/ ByteOr0(z, 1) + 256 * ByteOr0(z, 2) >= n
SizeWarned == \E j \in 1..Len(errlog) : errlog[j].kind = "size"
PastSizeCheck == spc \in {"blocks", "done"}

\* C10 as stated: the size warning is there exactly when the announced size is
\* at least the number of bytes after the header.
C10_WarnedIffAtLeastRest ==
    PastSizeCheck =>
        (SizeWarned <=>
            AnnouncedAtLeast(IF Len(data) > HeaderLen THEN Len(data) - HeaderLen ELSE 0))

\* C10 amended: the size warning is there exactly when the announced size is
\* at least the length of the whole stream, header included; it is emitted
\* only on the way into the record loop, never on a path that stops.
C10_WarnedIffAtLeastTotal ==
    /\ PastSizeCheck => (SizeWarned <=> AnnouncedAtLeast(Len(data)))
    /\ SizeWarned => PastSizeCheck

\* C10 witness: the warning was emitted and a record was decoded after it.
C10_Witness ==
    /\ spc = "done"
    /\ SizeWarned
    /\ Len(blocks) >= 1
    /\ ~AnnouncedAtLeast(LimbBase - 1)

-----------------------------------------------------------------------------
(* Claims about tools/sort_block_output.py *)

Touches(x, y) ==
    x.address + x.size = y.address \/ y.address + y.size = x.address
EndsAt(x, y) == x.address + x.size = y.address

Ascending(sd) == \A p \in 1..(Len(sd) - 1) : sd[p].address <= sd[p + 1].address
PositionOf(id) == CHOOSE p \in 1..Len(sorted_data) : sorted_data[p].id = id
BlockOf(id) == sorted_data[PositionOf(id)]

\* C4 as stated: when two input blocks share an address, the finished report
\* holds a DegenerateInput signal.
C4_DuplicateAddressSignalled ==
    (/\ apc = "done"
     /\ \E p, q \in 1..Len(block_data) :
            p # q /\ block_data[p].address = block_data[q].address)
        => \E r \in 1..Len(reports) : reports[r].kind = "DegenerateInput"

\* The report of C5 for sorted position p (from 1); `both` says whether a
\* pairing is decided by the touch relation in both directions or by
\* "the earlier block ends where the later one starts" alone.
Paired(x, y, both) == IF both THEN Touches(x, y) ELSE EndsAt(x, y)
ExpectedReport(p, both) ==
    LET b == sorted_data[p]
    IN  IF p > 1 /\ Paired(sorted_data[p - 1], b, both)
        THEN [block |-> b.id, kind |-> "AdjacentTo", other |-> sorted_data[p - 1].id]
        ELSE IF p < Len(sorted_data) /\ Paired(b, sorted_data[p + 1], both)
        THEN [block |-> b.id, kind |-> "AdjacentTo", other |-> sorted_data[p + 1].id]
        ELSE [block |-> b.id, kind |-> "Isolated", other |-> NoValue]

ReportsShape ==
    /\ apc # "sort" => (Len(sorted_data) = Len(block_data) /\ Ascending(sorted_data))
    /\ Len(reports) = si
    /\ apc = "done" => Len(reports) = Len(block_data)

C8_AdjacentReportsTouch ==
    \A r \in 1..Len(reports) :
        reports[r].kind = "AdjacentTo" =>
            LET x == BlockOf(reports[r].block)
                y == BlockOf(reports[r].other)
                d == PositionOf(reports[r].block) - PositionOf(reports[r].other)
            IN  /\ Touches(x, y)
                /\ d \in {-1, 1}

\* C8 witness: a finished report over three blocks where one block was paired
\* with its successor, one with its predecessor and one was reported isolated.
C8_Witness ==
    /\ apc = "done"
    /\ Len(reports) = 3
    /\ \E r \in 1..2 :
          /\ reports[r].kind = "AdjacentTo"
          /\ reports[r].other = sorted_data[r + 1].id
    /\ \E r \in 2..3 :
          /\ reports[r].kind = "AdjacentTo"
          /\ reports[r].other = sorted_data[r - 1].id
    /\ \E r \in 1..3 : reports[r].kind = "Isolated"

====
